---- MODULE Spec2Model ----
(***************************************************************************)
(* Voice-driven email assistant: the conversation state machine            *)
(* (backend/conversation_ai.py), the mailbox tool server                   *)
(* (backend/mcp_serve.py) and the telephony transport                      *)
(* (backend/voice_handler.py) behind its endpoints (backend/app.py).       *)
(***************************************************************************)
EXTENDS Integers, Sequences, FiniteSets, TLC

VARIABLES
    ai,                     \* a ConversationAI object driven directly
    user_sessions,          \* mcp_serve.user_sessions: user id -> UserSession
    turn,                   \* record of the last call of process_user_input
    conversation_sessions,  \* VoiceHandler.conversation_sessions: call sid -> ConversationAI
    requests,               \* webhook requests accepted and not yet answered
    posted,                 \* number of webhook requests received so far
    loop,                   \* id of the request whose handler occupies the event loop, 0 if idle
    response,               \* per call: the document last returned, until the provider acts on it
    phone_calls,            \* per call: the caller's number once the call is answered, how it
                            \* was placed, whether it ended; and what its turns did so far
    intents,                \* one entry per thing the caller said: its deliveries and cursor advances
    voice_handler           \* app.voice_handler: TRUE for the VoiceHandler, FALSE for None

vars == <<ai, user_sessions, turn, conversation_sessions, requests, posted, loop, response,
          phone_calls, intents, voice_handler>>

\* ------------------------------------------------------------------ bounds
MaxTurns == 3
MaxEmails == 2
MaxRequests == 6
MaxDeliveries == 2
MaxCursor == 3
MaxCallRequests == 5

\* ------------------------------------------------------------------- texts
\* Every string the code searches by substring, as its sequence of characters.
Chars ==
       ("" :> <<>>)
    @@ ("hello" :> <<"h", "e", "l", "l", "o">>)
    @@ ("Read my EMAILS" :> <<"R", "e", "a", "d", " ", "m", "y", " ", "E", "M", "A", "I", "L", "S">>)
    @@ ("next" :> <<"n", "e", "x", "t">>)
    @@ ("reply" :> <<"r", "e", "p", "l", "y">>)
    @@ ("stop" :> <<"s", "t", "o", "p">>)
    @@ ("thank you, goodbye" :> <<"t", "h", "a", "n", "k", " ", "y", "o", "u", ",", " ", "g", "o", "o", "d", "b", "y", "e">>)
    @@ ("Tell them I'll be late" :> <<"T", "e", "l", "l", " ", "t", "h", "e", "m", " ", "I", "'", "l", "l", " ", "b", "e", " ", "l", "a", "t", "e">>)
    @@ ("check my calendar" :> <<"c", "h", "e", "c", "k", " ", "m", "y", " ", "c", "a", "l", "e", "n", "d", "a", "r">>)
    @@ ("add a task" :> <<"a", "d", "d", " ", "a", " ", "t", "a", "s", "k">>)
    @@ ("skip and reply" :> <<"s", "k", "i", "p", " ", "a", "n", "d", " ", "r", "e", "p", "l", "y">>)
    @@ ("yes, read it" :> <<"y", "e", "s", ",", " ", "r", "e", "a", "d", " ", "i", "t">>)
    @@ ("done" :> <<"d", "o", "n", "e">>)
    @@ ("email then bye" :> <<"e", "m", "a", "i", "l", " ", "t", "h", "e", "n", " ", "b", "y", "e">>)
    @@ ("email" :> <<"e", "m", "a", "i", "l">>)
    @@ ("emails" :> <<"e", "m", "a", "i", "l", "s">>)
    @@ ("read email" :> <<"r", "e", "a", "d", " ", "e", "m", "a", "i", "l">>)
    @@ ("check email" :> <<"c", "h", "e", "c", "k", " ", "e", "m", "a", "i", "l">>)
    @@ ("respond" :> <<"r", "e", "s", "p", "o", "n", "d">>)
    @@ ("skip" :> <<"s", "k", "i", "p">>)
    @@ ("continue" :> <<"c", "o", "n", "t", "i", "n", "u", "e">>)
    @@ ("enough" :> <<"e", "n", "o", "u", "g", "h">>)
    @@ ("calendar" :> <<"c", "a", "l", "e", "n", "d", "a", "r">>)
    @@ ("schedule" :> <<"s", "c", "h", "e", "d", "u", "l", "e">>)
    @@ ("appointments" :> <<"a", "p", "p", "o", "i", "n", "t", "m", "e", "n", "t", "s">>)
    @@ ("task" :> <<"t", "a", "s", "k">>)
    @@ ("tasks" :> <<"t", "a", "s", "k", "s">>)
    @@ ("todo" :> <<"t", "o", "d", "o">>)
    @@ ("goodbye" :> <<"g", "o", "o", "d", "b", "y", "e">>)
    @@ ("bye" :> <<"b", "y", "e">>)
    @@ ("Ann <ann@example.com>" :> <<"A", "n", "n", " ", "<", "a", "n", "n", "@", "e", "x", "a", "m", "p", "l", "e", ".", "c", "o", "m", ">">>)
    @@ ("Shop <NoReply@shop.com>" :> <<"S", "h", "o", "p", " ", "<", "N", "o", "R", "e", "p", "l", "y", "@", "s", "h", "o", "p", ".", "c", "o", "m", ">">>)
    @@ ("no-reply@mail.com" :> <<"n", "o", "-", "r", "e", "p", "l", "y", "@", "m", "a", "i", "l", ".", "c", "o", "m">>)
    @@ ("lunch" :> <<"l", "u", "n", "c", "h">>)
    @@ ("Invoice due" :> <<"I", "n", "v", "o", "i", "c", "e", " ", "d", "u", "e">>)
    @@ ("noreply" :> <<"n", "o", "r", "e", "p", "l", "y">>)
    @@ ("no-reply" :> <<"n", "o", "-", "r", "e", "p", "l", "y">>)
    @@ ("urgent" :> <<"u", "r", "g", "e", "n", "t">>)
    @@ ("asap" :> <<"a", "s", "a", "p">>)
    @@ ("important" :> <<"i", "m", "p", "o", "r", "t", "a", "n", "t">>)
    @@ ("deadline" :> <<"d", "e", "a", "d", "l", "i", "n", "e">>)
    @@ ("action required" :> <<"a", "c", "t", "i", "o", "n", " ", "r", "e", "q", "u", "i", "r", "e", "d">>)
    @@ ("invoice" :> <<"i", "n", "v", "o", "i", "c", "e">>)
    @@ ("payment" :> <<"p", "a", "y", "m", "e", "n", "t">>)
    @@ ("security" :> <<"s", "e", "c", "u", "r", "i", "t", "y">>)
    @@ ("verify" :> <<"v", "e", "r", "i", "f", "y">>)
    @@ ("expire" :> <<"e", "x", "p", "i", "r", "e">>)
    @@ ("yes" :> <<"y", "e", "s">>)
    @@ ("read" :> <<"r", "e", "a", "d">>)
    @@ ("thank you" :> <<"t", "h", "a", "n", "k", " ", "y", "o", "u">>)
    @@ ("thanks" :> <<"t", "h", "a", "n", "k", "s">>)
    @@ ("No more emails" :> <<"N", "o", " ", "m", "o", "r", "e", " ", "e", "m", "a", "i", "l", "s">>)
    @@ ("No more emails to read" :> <<"N", "o", " ", "m", "o", "r", "e", " ", "e", "m", "a", "i", "l", "s", " ", "t", "o", " ", "r", "e", "a", "d">>)
    @@ ("No emails loaded" :> <<"N", "o", " ", "e", "m", "a", "i", "l", "s", " ", "l", "o", "a", "d", "e", "d">>)
    @@ ("Moved to email" :> <<"M", "o", "v", "e", "d", " ", "t", "o", " ", "e", "m", "a", "i", "l">>)
    @@ ("Error: mailbox tool unavailable" :> <<"E", "r", "r", "o", "r", ":", " ", "m", "a", "i", "l", "b", "o", "x", " ", "t", "o", "o", "l", " ", "u", "n", "a", "v", "a", "i", "l", "a", "b", "l", "e">>)
UpperToLower ==
       ("A" :> "a")
    @@ ("E" :> "e")
    @@ ("I" :> "i")
    @@ ("L" :> "l")
    @@ ("M" :> "m")
    @@ ("N" :> "n")
    @@ ("R" :> "r")
    @@ ("S" :> "s")
    @@ ("T" :> "t")

Lower(cs) == [i \in 1..Len(cs) |-> IF cs[i] \in DOMAIN UpperToLower THEN UpperToLower[cs[i]] ELSE cs[i]]

\* Python's `needle in hay` on strings
Contains(needle, hay) ==
    \E i \in 0..(Len(hay) - Len(needle)) :
        \A j \in 1..Len(needle) : hay[i + j] = needle[j]

\* any(keyword in user_lower for keyword in keywords), user_lower = user_speech.lower()
AnyKeyword(keywords, user_speech) ==
    \E k \in keywords : Contains(Chars[k], Lower(Chars[user_speech]))

\* ---------------------------------------------------------------- keywords
EmailKeywords_Read == {"email", "emails", "read", "check email"}
EmailKeywords == {"email", "emails", "read email", "check email"}
ReplyKeywords == {"respond", "reply"}
NextKeywords == {"next", "skip", "continue"}
StopKeywords == {"stop", "done", "enough"}
CalendarKeywords == {"calendar", "schedule", "appointments"}
TaskKeywords == {"task", "tasks", "todo"}
FarewellKeywords_NoDone == {"goodbye", "bye", "thank you", "thanks"}
FarewellKeywords == {"goodbye", "bye", "done", "thank you", "thanks"}

\* what a caller may say in one turn (the transport posts "" when nothing was heard)
Utterances ==
    {"", "hello", "Read my EMAILS", "next", "reply", "stop", "thank you, goodbye",
     "Tell them I'll be late", "check my calendar", "add a task", "skip and reply",
     "yes, read it", "done", "email then bye"}

Modes == {"greeting", "email_reading", "responding", "general"}

\* the closed set of directive actions
ActionEnum ==
    {"continue", "start_email_reading", "read_next_email", "continue_reading",
     "wait_for_response_content", "end_call"}

None == "None"
UserIds == {"+15550001", "+15550002"}
CallSids == {"CA1", "CA2"}
\* the emails of an inbox, most important first
EmailIds == <<"m1", "m2", "m3", "m4">>

\* ---------------------------------------------------------------- messages
MsgErrorApology == "I'm sorry, I encountered an error. Could you please try again?"
MsgHello == "Hello! I'm your email assistant. How can I help you today?"
MsgSureEmails == "Sure! Let me check your emails. <email_result>. I'll start reading them one by one."
MsgWhatToSay == "What would you like me to say in your response?"
MsgCouldntGet == "I couldn't get the current email details. Let me continue reading."
MsgThatsAll == "That's all your emails! Is there anything else I can help you with?"
MsgMoving == "<next_result>. Moving to the next email."
MsgStopped == "Okay, I've stopped reading emails. Is there anything else I can help you with?"
MsgContinueReading == "I'll continue reading. Say 'next' to skip to the next email, or 'respond' if you'd like to reply to this one."
MsgLostTrack == "Let me continue reading emails."
MsgSentReply == "I've sent your reply. Would you like me to continue reading more emails?"
MsgTroubleSending == "I had trouble sending that response. Let me continue reading emails."
MsgTaskPrompt == "I can help you create tasks. What task would you like me to add?"
MsgFarewell == "You're welcome! Have a great day. Goodbye!"
MsgCanHelp == "I can help you with reading emails, checking your calendar, or managing tasks. What would you like to do?"

MsgCredsOk == "Gmail credentials initialized successfully"
MsgCredsError == "Error initializing credentials"
MsgInitFirst == "Please initialize credentials first"
MsgGetEmailsError == "Error getting emails"
MsgNoEmailsFound == "No emails found in your inbox."
MsgFound == "Found <n> emails"
MsgNoEmailsLoaded == "No emails loaded"
MsgNoMoreToRead == "No more emails to read"
MsgMovedTo == "Moved to email"
MsgReplySent == "Email reply sent"
MsgCalendar == "Calendar events retrieved"
MsgSorryNoneLoaded == "Sorry, no emails loaded. Please get emails first."
MsgSorryNoMore == "Sorry, no more emails to read."
MsgEmailSubject == "Email <position>. Subject: <subject>. Would you like me to read this email or skip to the next one?"
MsgFullContent == "<body> Say 'respond' to reply to this email or 'next' for the next email."
MsgUnknownTool == "Error: 400: Unknown tool: no_such_tool"
MsgToolError == "Error: mailbox tool unavailable"

\* ------------------------------------------------- mailbox tool server (mcp_serve.py)
\* UserSession.__init__; gmail_assistant is None or an object (FALSE / TRUE here);
\* gmail_emails is None or a non-empty list: the code stores no empty list and reads
\* the field only through `not session.gmail_emails`, so None is written <<>>.
UserSession == [gmail_assistant |-> FALSE, gmail_emails |-> <<>>, current_email_index |-> 0]

\* get_user_session: the map with the user's session created when missing
get_user_session(us, user_id) ==
    IF user_id \in DOMAIN us THEN us ELSE us @@ (user_id :> UserSession)

\* inboxes analyze_inbox may return: the first n emails, none when the inbox is empty
Inboxes == {SubSeq(EmailIds, 1, n) : n \in 0..MaxEmails}

\* initialize_creds_impl; ctor_ok: GmailAssistant() did not raise
initialize_creds_impl(us, user_id, ctor_ok) ==
    LET s == get_user_session(us, user_id) IN
    IF ctor_ok
      THEN [us |-> [s EXCEPT ![user_id].gmail_assistant = TRUE], result |-> MsgCredsOk]
      ELSE [us |-> s, result |-> MsgCredsError]

\* get_emails_impl; fetch is what analyze_inbox does: raises or returns a list
get_emails_impl(us, user_id, fetch) ==
    LET s == get_user_session(us, user_id) IN
    IF ~s[user_id].gmail_assistant THEN [us |-> s, result |-> MsgInitFirst]
    ELSE IF fetch.raised THEN [us |-> s, result |-> MsgGetEmailsError]
    ELSE IF fetch.emails = <<>> THEN [us |-> s, result |-> MsgNoEmailsFound]
    ELSE [us |-> [s EXCEPT ![user_id].gmail_emails = fetch.emails,
                           ![user_id].current_email_index = 0],
          result |-> MsgFound]

\* next_email_impl
next_email_impl_Wrap(us, user_id) ==
    LET s == get_user_session(us, user_id) IN
    IF s[user_id].gmail_emails = <<>> THEN [us |-> s, result |-> MsgNoEmailsLoaded]
    ELSE LET s2 == [s EXCEPT ![user_id].current_email_index = @ + 1] IN
         IF s2[user_id].current_email_index >= Len(s2[user_id].gmail_emails)
           THEN [us |-> [s EXCEPT ![user_id].current_email_index = 0], result |-> MsgNoMoreToRead]
           ELSE [us |-> s2, result |-> MsgMovedTo]
next_email_impl(us, user_id) ==
    LET s == get_user_session(us, user_id) IN
    IF s[user_id].gmail_emails = <<>> THEN [us |-> s, result |-> MsgNoEmailsLoaded]
    ELSE LET s2 == [s EXCEPT ![user_id].current_email_index = @ + 1] IN
         IF s2[user_id].current_email_index >= Len(s2[user_id].gmail_emails)
           THEN [us |-> s2, result |-> MsgNoMoreToRead]
           ELSE [us |-> s2, result |-> MsgMovedTo]

\* get_current_email_for_reading_impl
get_current_email_for_reading_impl(us, user_id) ==
    LET s == get_user_session(us, user_id) IN
    IF s[user_id].gmail_emails = <<>> THEN [us |-> s, result |-> MsgSorryNoneLoaded]
    ELSE IF s[user_id].current_email_index >= Len(s[user_id].gmail_emails)
      THEN [us |-> s, result |-> MsgSorryNoMore]
      ELSE [us |-> s, result |-> MsgEmailSubject]

\* read_full_current_email_impl
read_full_current_email_impl_Advance(us, user_id) ==
    LET s == get_user_session(us, user_id) IN
    IF s[user_id].gmail_emails = <<>> THEN [us |-> s, result |-> MsgSorryNoneLoaded]
    ELSE IF s[user_id].current_email_index >= Len(s[user_id].gmail_emails)
      THEN [us |-> s, result |-> MsgSorryNoMore]
      ELSE [us |-> [s EXCEPT ![user_id].current_email_index = @ + 1],
            result |-> MsgFullContent]
read_full_current_email_impl(us, user_id) ==
    LET s == get_user_session(us, user_id) IN
    IF s[user_id].gmail_emails = <<>> THEN [us |-> s, result |-> MsgSorryNoneLoaded]
    ELSE IF s[user_id].current_email_index >= Len(s[user_id].gmail_emails)
      THEN [us |-> s, result |-> MsgSorryNoMore]
      ELSE [us |-> s, result |-> MsgFullContent]

\* send_email_reply_impl
send_email_reply_impl(us, user_id) ==
    LET s == get_user_session(us, user_id) IN
    IF ~s[user_id].gmail_assistant THEN [us |-> s, result |-> MsgInitFirst]
    ELSE [us |-> s, result |-> MsgReplySent]

\* get_calendar_events_impl
get_calendar_events_impl(us, user_id) == [us |-> us, result |-> MsgCalendar]

\* --------------------------------------------------- mailbox tool client (MCPClient)
\* One request to the tool server: the server's answer comes back, or the request
\* fails and an in-band error text is returned with the server untouched, or the
\* client raises.
ToolOutcomes(us, answers) ==
    {[raised |-> FALSE, us |-> a.us, result |-> a.result] : a \in answers}
    \cup {[raised |-> FALSE, us |-> us, result |-> MsgToolError],
          [raised |-> TRUE, us |-> us, result |-> None]}

MCPClient_initialize_creds(us, user_id) ==
    ToolOutcomes(us, {initialize_creds_impl(us, user_id, ok) : ok \in BOOLEAN})

MCPClient_get_emails(us, user_id) ==
    ToolOutcomes(us,
        {get_emails_impl(us, user_id, [raised |-> FALSE, emails |-> e]) : e \in Inboxes}
        \cup {get_emails_impl(us, user_id, [raised |-> TRUE, emails |-> <<>>])})

MCPClient_next_email(us, user_id) ==
    ToolOutcomes(us, {next_email_impl(us, user_id)})

MCPClient_send_email_reply(us, user_id) ==
    ToolOutcomes(us, {send_email_reply_impl(us, user_id)})

MCPClient_get_calendar_events(us, user_id) ==
    ToolOutcomes(us, {get_calendar_events_impl(us, user_id)})

\* get_current_email: {"success": ..., "email": ..., "position": ...} for the email
\* under the cursor, success false when there is none or the request failed
MCPClient_get_current_email(us, user_id) ==
    LET s == get_user_session(us, user_id)
        idx == s[user_id].current_email_index
        emails == s[user_id].gmail_emails
    IN  (IF idx < Len(emails)
           THEN {[raised |-> FALSE, us |-> s, success |-> TRUE, email |-> emails[idx + 1]]}
           ELSE {[raised |-> FALSE, us |-> s, success |-> FALSE, email |-> None]})
        \cup {[raised |-> FALSE, us |-> us, success |-> FALSE, email |-> None],
              [raised |-> TRUE, us |-> us, success |-> FALSE, email |-> None]}

\* ------------------------------------------------ generative collaborator (OpenAI)
AiText == "Certainly."
\* chat.completions.create: raises (error, timeout) or returns a content, maybe empty
Generate ==
    {[raised |-> TRUE, content |-> None]}
    \cup {[raised |-> FALSE, content |-> t] : t \in {"", AiText}}

\* -------------------------------------------------- ConversationAI (conversation_ai.py)
\* ConversationAI.__init__; context holds at most the key responding_to
ConversationAI(user_id) ==
    [user_id |-> user_id, mode |-> "greeting",
     context |-> [responding_to |-> None], conversation_history |-> <<>>]

\* one entry of the log of collaborator calls made during a turn
Call(tool, body, o) == [tool |-> tool, body |-> body, raised |-> o.raised,
                        result |-> IF tool = "generate" THEN o.content
                                   ELSE IF tool = "get_current_email" THEN o.email
                                   ELSE o.result]

\* how many calls of a tool the log of a turn holds
Count(tool, calls) == Cardinality({i \in DOMAIN calls : calls[i].tool = tool})

\* how many next_email calls of a turn moved the cursor of the mailbox
Advances(calls) ==
    Cardinality({i \in DOMAIN calls : /\ calls[i].tool = "next_email"
                                      /\ calls[i].result \in {MsgMovedTo, MsgNoMoreToRead}})

\* a handler returning a directive
Return(a, us, action, tts_text, calls) ==
    [ai |-> a, us |-> us, directive |-> [action |-> action, tts_text |-> tts_text],
     calls |-> calls, raised |-> FALSE, caught |-> FALSE]

\* a handler left by an exception
Raise(a, us, calls) ==
    [ai |-> a, us |-> us, directive |-> [action |-> None, tts_text |-> None],
     calls |-> calls, raised |-> TRUE, caught |-> FALSE]

\* "No more emails" in next_result
NoMoreEmails_Exact(next_result) == next_result = "No more emails"
NoMoreEmails(next_result) == Contains(Chars["No more emails"], Chars[next_result])

\* body=composed_response of send_email_reply
ReplyBody_Verbatim(user_speech, composed_response) == user_speech
ReplyBody(user_speech, composed_response) == composed_response

\* _handle_greeting_mode; pre: calls made earlier in the same turn
_handle_greeting_mode(a, us, user_speech, pre) ==
    LET hello(a1, us1, calls) == Return(a1, us1, "continue", MsgHello, calls) IN
    UNION {
      LET c0 == Append(pre, Call("generate", user_speech, g)) IN
      IF g.raised THEN {hello(a, us, c0)}
      ELSE IF AnyKeyword(EmailKeywords, user_speech) THEN
        LET a1 == [a EXCEPT !.mode = "email_reading"] IN
        UNION {
          LET c1 == Append(c0, Call("initialize_creds", None, cred)) IN
          IF cred.raised THEN {hello(a1, cred.us, c1)}
          ELSE {
            LET c2 == Append(c1, Call("get_emails", None, em)) IN
            IF em.raised THEN hello(a1, em.us, c2)
            ELSE Return(a1, em.us, "start_email_reading", MsgSureEmails, c2)
            : em \in MCPClient_get_emails(cred.us, a.user_id)}
          : cred \in MCPClient_initialize_creds(us, a.user_id)}
      ELSE {Return(a, us, "continue", g.content, c0)}
      : g \in Generate}

\* _handle_email_reading_mode
_handle_email_reading_mode(a, us, user_speech) ==
    IF AnyKeyword(ReplyKeywords, user_speech) THEN
      LET a1 == [a EXCEPT !.mode = "responding"] IN
      { LET c == <<Call("get_current_email", None, cur)>> IN
        IF cur.raised THEN Raise(a1, cur.us, c)
        ELSE IF cur.success
          THEN Return([a1 EXCEPT !.context.responding_to = cur.email], cur.us,
                      "wait_for_response_content", MsgWhatToSay, c)
          ELSE Return(a1, cur.us, "continue_reading", MsgCouldntGet, c)
        : cur \in MCPClient_get_current_email(us, a.user_id)}
    ELSE IF AnyKeyword(NextKeywords, user_speech) THEN
      { LET c == <<Call("next_email", None, nx)>> IN
        IF nx.raised THEN Raise(a, nx.us, c)
        ELSE IF NoMoreEmails(nx.result)
          THEN Return([a EXCEPT !.mode = "general"], nx.us, "continue_reading", MsgThatsAll, c)
          ELSE Return(a, nx.us, "read_next_email", MsgMoving, c)
        : nx \in MCPClient_next_email(us, a.user_id)}
    ELSE IF AnyKeyword(StopKeywords, user_speech) THEN
      {Return([a EXCEPT !.mode = "general"], us, "continue_reading", MsgStopped, <<>>)}
    ELSE
      {Return(a, us, "continue_reading", MsgContinueReading, <<>>)}

\* the except clause of _handle_responding_mode, lines 224-230
RespondingFailed_Propagates(a, us, calls) == Raise(a, us, calls)
RespondingFailed(a, us, calls) ==
    Return([a EXCEPT !.mode = "email_reading"], us, "continue_reading", MsgTroubleSending, calls)

\* _handle_responding_mode
_handle_responding_mode(a, us, user_speech) ==
    LET back == [a EXCEPT !.mode = "email_reading"] IN
    IF a.context.responding_to = None THEN
      {Return(back, us, "continue_reading", MsgLostTrack, <<>>)}
    ELSE
      UNION {
        LET c0 == <<Call("generate", user_speech, g)>> IN
        IF g.raised THEN {RespondingFailed(a, us, c0)}
        ELSE {
          LET c1 == Append(c0, Call("send_email_reply", ReplyBody(user_speech, g.content), snd)) IN
          IF snd.raised
            THEN RespondingFailed(a, snd.us, c1)
            ELSE Return(back, snd.us, "continue_reading", MsgSentReply, c1)
          : snd \in MCPClient_send_email_reply(us, a.user_id)}
        : g \in Generate}

\* the last branch of _handle_general_mode: open conversation through the generative
\* collaborator, with a canned line when it fails
GeneralConversation_NoFallback(a, us, user_speech) ==
    { LET c == <<Call("generate", user_speech, g)>> IN
      IF g.raised THEN Raise(a, us, c)
      ELSE Return(a, us, "continue", g.content, c)
      : g \in Generate}
GeneralConversation(a, us, user_speech) ==
    { LET c == <<Call("generate", user_speech, g)>> IN
      IF g.raised THEN Return(a, us, "continue", MsgCanHelp, c)
      ELSE Return(a, us, "continue", g.content, c)
      : g \in Generate}

\* _handle_general_mode
_handle_general_mode_FarewellFirst(a, us, user_speech) ==
    IF AnyKeyword(FarewellKeywords, user_speech) THEN
      {Return(a, us, "end_call", MsgFarewell, <<>>)}
    ELSE IF AnyKeyword(EmailKeywords, user_speech) THEN
      _handle_greeting_mode([a EXCEPT !.mode = "greeting"], us, user_speech, <<>>)
    ELSE IF AnyKeyword(CalendarKeywords, user_speech) THEN
      { LET c == <<Call("get_calendar_events", None, cal)>> IN
        IF cal.raised THEN Raise(a, cal.us, c)
        ELSE Return(a, cal.us, "continue", cal.result, c)
        : cal \in MCPClient_get_calendar_events(us, a.user_id)}
    ELSE IF AnyKeyword(TaskKeywords, user_speech) THEN
      {Return(a, us, "continue", MsgTaskPrompt, <<>>)}
    ELSE GeneralConversation(a, us, user_speech)
_handle_general_mode(a, us, user_speech) ==
    IF AnyKeyword(EmailKeywords, user_speech) THEN
      _handle_greeting_mode([a EXCEPT !.mode = "greeting"], us, user_speech, <<>>)
    ELSE IF AnyKeyword(CalendarKeywords, user_speech) THEN
      { LET c == <<Call("get_calendar_events", None, cal)>> IN
        IF cal.raised THEN Raise(a, cal.us, c)
        ELSE Return(a, cal.us, "continue", cal.result, c)
        : cal \in MCPClient_get_calendar_events(us, a.user_id)}
    ELSE IF AnyKeyword(TaskKeywords, user_speech) THEN
      {Return(a, us, "continue", MsgTaskPrompt, <<>>)}
    ELSE IF AnyKeyword(FarewellKeywords, user_speech) THEN
      {Return(a, us, "end_call", MsgFarewell, <<>>)}
    ELSE GeneralConversation(a, us, user_speech)

\* the dispatch on the mode, inside the try of process_user_input
Dispatch(a, us, user_speech) ==
    IF a.mode = "greeting" THEN _handle_greeting_mode(a, us, user_speech, <<>>)
    ELSE IF a.mode = "email_reading" THEN _handle_email_reading_mode(a, us, user_speech)
    ELSE IF a.mode = "responding" THEN _handle_responding_mode(a, us, user_speech)
    ELSE _handle_general_mode(a, us, user_speech)

\* the except clause of process_user_input: any exception becomes the apology directive
CatchAll_Reraise(r) == r
CatchAll(r) ==
    IF r.raised
      THEN [r EXCEPT !.directive = [action |-> "continue", tts_text |-> MsgErrorApology],
                     !.raised = FALSE, !.caught = TRUE]
      ELSE r

\* ConversationAI.process_user_input: every way one turn can go
process_user_input_AppendOnSuccess(a, us, user_speech) ==
    LET a1 == [a EXCEPT !.conversation_history = Append(@, user_speech)] IN
    {CatchAll(IF r.raised
                THEN [r EXCEPT !.ai.conversation_history = a.conversation_history]
                ELSE r)
       : r \in Dispatch(a1, us, user_speech)}
process_user_input(a, us, user_speech) ==
    LET a1 == [a EXCEPT !.conversation_history = Append(@, user_speech)] IN
    {CatchAll(r) : r \in Dispatch(a1, us, user_speech)}

\* ------------------------------------------------------- one conversation, turn by turn
NoTurn ==
    [mode_before |-> None, utterance |-> None,
     directive |-> [action |-> None, tts_text |-> None],
     calls |-> <<>>, raised |-> FALSE, caught |-> FALSE]

\* what the last turn did, kept for the properties
TurnRecord(a, user_speech, r) ==
    [mode_before |-> a.mode, utterance |-> user_speech, directive |-> r.directive,
     calls |-> r.calls, raised |-> r.raised, caught |-> r.caught]

NoResponse == [say |-> <<>>, gather |-> None, redirect |-> None, hangup |-> FALSE]

\* no call was placed yet
NoCall ==
    [From |-> None, via |-> None, ended |-> FALSE, destroyed |-> FALSE,
     next_email |-> 0, send_email_reply |-> 0]

InitWith(handler, received) ==
    /\ ai = ConversationAI("+15550001")
    /\ user_sessions = <<>>
    /\ turn = NoTurn
    /\ conversation_sessions = <<>>
    /\ requests = {}
    /\ posted = received
    /\ loop = 0
    /\ response = [c \in CallSids |-> NoResponse]
    /\ phone_calls = [c \in CallSids |-> NoCall]
    /\ intents = <<>>
    /\ voice_handler = handler

\* the service started and VoiceHandler() succeeded
Init == InitWith(TRUE, 0)

\* the service started, VoiceHandler() succeeded or raised (the provider's credentials
\* are missing from the environment: voice_handler is None), and the service answered
\* the requests of earlier calls
CallInit == \E handler \in BOOLEAN : InitWith(handler, MaxRequests - MaxCallRequests)

\* conv_ai.process_user_input(user_speech) on the object `ai`
ProcessUserInput(mode) ==
    /\ ai.mode = mode
    /\ Len(ai.conversation_history) < MaxTurns
    /\ \E user_speech \in Utterances :
         \E r \in process_user_input(ai, user_sessions, user_speech) :
            /\ ai' = r.ai
            /\ user_sessions' = r.us
            /\ turn' = TurnRecord(ai, user_speech, r)
    /\ UNCHANGED <<conversation_sessions, requests, posted, loop, response, phone_calls, intents,
                   voice_handler>>

GreetingTurn == ProcessUserInput("greeting")
EmailReadingTurn == ProcessUserInput("email_reading")
RespondingTurn == ProcessUserInput("responding")
GeneralTurn == ProcessUserInput("general")

Next == GreetingTurn \/ EmailReadingTurn \/ RespondingTurn \/ GeneralTurn

Spec == Init /\ [][Next]_vars

\* ------------------------------------------------- the transport (voice_handler.py)
\* what callers say in the calls the transport carries
SpokenUtterances == {"Read my EMAILS", "next", "thank you, goodbye"}

SayLost == "I'm sorry, I lost our conversation. Let me restart."
SayError == "I'm sorry, I encountered an error. Let me try again."
SayWelcome == "Hello! I'm your personal email assistant. How can I help you today?"
SayNoInput == "I didn't hear anything. Please let me know how I can help you."
SayNoReply == "I didn't hear your response. What would you like me to say?"
SayHowElse == "How else can I help you?"
SayEmailFallback == "Say 'respond' to reply, 'next' for the next email, or 'stop' to finish."
SayNoMoreEmails == "No more emails to read. Is there anything else I can help you with?"
SayTroubleReading == "I had trouble reading that email. Let me try the next one."
SayUnavailable == "Sorry, service unavailable"

\* a response document: what is said, where a Gather posts the next utterance,
\* the final Redirect, and whether the call is hung up
Twiml(say, gather, redirect, hangup) ==
    [say |-> say, gather |-> gather, redirect |-> redirect, hangup |-> hangup]

\* the document for a request whose call has no session
LostDocument_NoRedirect == Twiml(<<SayLost>>, None, None, FALSE)
LostDocument == Twiml(<<SayLost>>, None, "/voice/greeting", FALSE)

\* the statuses for which handle_call_status cleans the session up
TerminalStatuses_NoCompleted == {"failed", "busy", "no-answer"}
TerminalStatuses == {"completed", "failed", "busy", "no-answer"}

\* the CallStatus values the provider reports: while a call goes on, and at its end
ProgressStatuses == {"initiated", "ringing", "in-progress"}
FinalStatuses == {"completed", "failed", "busy", "no-answer"}

\* how a call was placed: VoiceHandler.initiate_call registers no status callback,
\* caller.make_direct_call registers /voice/status
CallOrigins == {"initiate_call", "make_direct_call"}
StatusCallback(via) == via = "make_direct_call"

\* `await x` where x is what ConversationAI.process_user_input or
\* ConversationAI.get_current_email_for_reading returned: the methods are plain
\* functions, their results a dict and a str, and awaiting those raises TypeError
AwaitRaises(value) == TRUE

\* The handlers run on one event loop. A handler gives the loop up only at an await
\* that suspends; the collaborator calls made inside ConversationAI.process_user_input
\* are plain blocking calls, so the loop stays with the request until the turn is over.
LoopDuringTurn_Released(id) == 0
LoopDuringTurn(id) == id

Request(id, endpoint, call_sid, from, speech, intent) ==
    [id |-> id, endpoint |-> endpoint, call_sid |-> call_sid, From |-> from,
     SpeechResult |-> speech, CallStatus |-> None, intent |-> intent, pc |-> "await_form",
     seen |-> [mode |-> None, context |-> [responding_to |-> None]]]

\* a request to /voice/status
StatusRequest(id, call_sid, from, call_status) ==
    [Request(id, "status", call_sid, from, None, 0) EXCEPT !.CallStatus = call_status]

Outstanding(c) == {req \in requests : req.call_sid = c}

\* the numbers a call may come from; the calls are numbered in the order they are
\* placed, and the first comes from the first number
Callers(c) == IF c = "CA1" THEN {"+15550001"} ELSE UserIds

\* the endpoint a path of a document leads to
Endpoint(path) ==
    IF path = "/voice/greeting" THEN "greeting"
    ELSE IF path = "/voice/read_email" THEN "read_email"
    ELSE "process_input"

\* the call goes on: the provider acts on the documents it is given
Live(c) == phone_calls[c].From # None /\ ~phone_calls[c].ended

\* a call is placed in one of the given ways and answered: the telephony provider
\* fetches /voice/greeting, and posts the status of the call when a status callback
\* is registered
PlaceCall(origins) ==
    \E c \in CallSids, from \in UserIds, via \in origins :
       /\ phone_calls[c].From = None
       /\ from \in Callers(c)
       /\ c = "CA1" \/ phone_calls["CA1"].From # None
       /\ phone_calls' = [phone_calls EXCEPT ![c].From = from, ![c].via = via]
       /\ IF StatusCallback(via)
            THEN /\ posted + 2 <= MaxRequests
                 /\ \E call_status \in ProgressStatuses :
                      requests' = requests \cup
                         {Request(posted + 1, "greeting", c, from, None, 0),
                          StatusRequest(posted + 2, c, from, call_status)}
                 /\ posted' = posted + 2
            ELSE /\ posted < MaxRequests
                 /\ requests' = requests \cup {Request(posted + 1, "greeting", c, from, None, 0)}
                 /\ posted' = posted + 1
       /\ UNCHANGED <<ai, user_sessions, turn, conversation_sessions, loop, response, intents,
                      voice_handler>>

\* a call placed through the service (POST /make-call, VoiceHandler.initiate_call)
StartCall == PlaceCall({"initiate_call"})

\* a call placed through the service, which needs the voice handler (app.py line 50),
\* or by caller.make_direct_call
StartAnyCall ==
    PlaceCall(IF voice_handler THEN CallOrigins ELSE CallOrigins \ {"initiate_call"})

\* the caller speaks during a Gather: the provider posts the utterance to its action
FollowGather ==
    /\ posted < MaxRequests
    /\ \E c \in CallSids, speech \in SpokenUtterances :
         /\ Live(c)
         /\ Outstanding(c) = {}
         /\ response[c].gather # None
         /\ requests' = requests \cup
               {Request(posted + 1, Endpoint(response[c].gather), c, phone_calls[c].From,
                        speech, Len(intents) + 1)}
         /\ intents' = Append(intents,
               [call_sid |-> c, speech |-> speech, deliveries |-> 1, advances |-> 0,
                mode |-> IF c \in DOMAIN conversation_sessions
                           THEN conversation_sessions[c].mode ELSE None])
         /\ response' = [response EXCEPT ![c] = NoResponse]
    /\ posted' = posted + 1
    /\ UNCHANGED <<ai, user_sessions, turn, conversation_sessions, loop, phone_calls,
                   voice_handler>>

\* nothing was heard, or the document holds no Gather: the document runs to its
\* Redirect and the provider posts to that endpoint, without a SpeechResult
FollowRedirect ==
    /\ posted < MaxRequests
    /\ \E c \in CallSids :
         /\ Live(c)
         /\ Outstanding(c) = {}
         /\ response[c].redirect # None
         /\ requests' = requests \cup
               {Request(posted + 1, Endpoint(response[c].redirect), c, phone_calls[c].From,
                        IF Endpoint(response[c].redirect) = "process_input" THEN "" ELSE None,
                        0)}
         /\ response' = [response EXCEPT ![c] = NoResponse]
    /\ posted' = posted + 1
    /\ UNCHANGED <<ai, user_sessions, turn, conversation_sessions, loop, phone_calls, intents,
                   voice_handler>>

\* the provider delivers an utterance again while its first delivery is unanswered
\* (a retry of the webhook)
RetryInput ==
    /\ posted < MaxRequests
    /\ \E req \in requests :
         /\ req.endpoint = "process_input"
         /\ req.intent # 0
         /\ intents[req.intent].deliveries < MaxDeliveries
         /\ requests' = requests \cup
               {Request(posted + 1, "process_input", req.call_sid, req.From,
                        req.SpeechResult, req.intent)}
         /\ intents' = [intents EXCEPT ![req.intent].deliveries = @ + 1]
    /\ posted' = posted + 1
    /\ UNCHANGED <<ai, user_sessions, turn, conversation_sessions, loop, response, phone_calls,
                   voice_handler>>

\* /voice/read_email is an open endpoint of the service: a request naming the id of
\* a call can arrive whether or not a document of the call redirected there
PostReadEmail ==
    /\ posted < MaxRequests
    /\ \E c \in CallSids :
         /\ phone_calls[c].From # None
         /\ Outstanding(c) = {}
         /\ requests' = requests \cup
               {Request(posted + 1, "read_email", c, phone_calls[c].From, None, 0)}
    /\ posted' = posted + 1
    /\ UNCHANGED <<ai, user_sessions, turn, conversation_sessions, loop, response, phone_calls,
                   intents, voice_handler>>

\* the call terminates (the caller hangs up, the document ends or hangs up, the call
\* fails); the provider posts the final status when a status callback is registered
CallEnds ==
    \E c \in CallSids :
       /\ Live(c)
       /\ phone_calls' = [phone_calls EXCEPT ![c].ended = TRUE]
       /\ IF StatusCallback(phone_calls[c].via)
            THEN /\ posted < MaxRequests
                 /\ \E call_status \in FinalStatuses :
                      requests' = requests \cup
                         {StatusRequest(posted + 1, c, phone_calls[c].From, call_status)}
                 /\ posted' = posted + 1
            ELSE UNCHANGED <<requests, posted>>
       /\ UNCHANGED <<ai, user_sessions, turn, conversation_sessions, loop, response, intents,
                      voice_handler>>

\* handle_greeting, lines 57-60: the session of the call, created when missing
GreetingSession_Reset(sessions, call_sid, caller_number) ==
    [c \in DOMAIN sessions \cup {call_sid} |->
        IF c = call_sid THEN ConversationAI(caller_number) ELSE sessions[c]]
GreetingSession(sessions, call_sid, caller_number) ==
    IF call_sid \in DOMAIN sessions
      THEN sessions
      ELSE sessions @@ (call_sid :> ConversationAI(caller_number))

\* the registry without the session of a call (del self.conversation_sessions[call_sid])
Del(sessions, call_sid) == [c \in DOMAIN sessions \ {call_sid} |-> sessions[c]]

\* VoiceHandler.handle_greeting
handle_greeting ==
    /\ voice_handler
    /\ loop = 0
    /\ \E req \in requests :
         /\ req.endpoint = "greeting"
         /\ conversation_sessions' =
               GreetingSession(conversation_sessions, req.call_sid, req.From)
         /\ response' = [response EXCEPT ![req.call_sid] =
                             Twiml(<<SayWelcome, SayNoInput>>, "/voice/process_input",
                                   "/voice/greeting", FALSE)]
         /\ requests' = requests \ {req}
    /\ UNCHANGED <<ai, user_sessions, turn, posted, loop, phone_calls, intents, voice_handler>>

\* VoiceHandler.process_user_input up to the call of conversation_ai.process_user_input:
\* the form is read, the session looked up, and the turn entered
process_input_begin_Recreate ==
    /\ voice_handler
    /\ loop = 0
    /\ \E req \in requests :
         /\ req.endpoint = "process_input"
         /\ req.pc = "await_form"
         /\ LET sessions == GreetingSession(conversation_sessions, req.call_sid, req.From) IN
            /\ conversation_sessions' = sessions
            /\ requests' = (requests \ {req}) \cup
                  {[req EXCEPT !.pc = "in_turn",
                               !.seen = [mode |-> sessions[req.call_sid].mode,
                                         context |-> sessions[req.call_sid].context]]}
            /\ loop' = LoopDuringTurn(req.id)
    /\ UNCHANGED <<ai, user_sessions, turn, response, posted, phone_calls, intents,
                   voice_handler>>
process_input_begin ==
    /\ voice_handler
    /\ loop = 0
    /\ \E req \in requests :
         /\ req.endpoint = "process_input"
         /\ req.pc = "await_form"
         /\ IF req.call_sid \notin DOMAIN conversation_sessions
              THEN /\ response' = [response EXCEPT ![req.call_sid] = LostDocument]
                   /\ requests' = requests \ {req}
                   /\ loop' = 0
              ELSE /\ requests' = (requests \ {req}) \cup
                        {[req EXCEPT !.pc = "in_turn",
                                     !.seen = [mode |-> conversation_sessions[req.call_sid].mode,
                                               context |-> conversation_sessions[req.call_sid].context]]}
                   /\ loop' = LoopDuringTurn(req.id)
                   /\ UNCHANGED response
    /\ UNCHANGED <<ai, user_sessions, turn, conversation_sessions, posted, phone_calls, intents,
                   voice_handler>>

\* the document for a directive, lines 106-154
Render(directive) ==
    LET say == <<directive.tts_text>> IN
    IF directive.action = "end_call" THEN Twiml(say, None, None, TRUE)
    ELSE IF directive.action \in {"start_email_reading", "read_next_email", "continue_reading"}
      THEN Twiml(say, None, "/voice/read_email", FALSE)
    ELSE IF directive.action = "wait_for_response_content"
      THEN Twiml(Append(say, SayNoReply), "/voice/process_input", "/voice/process_input", FALSE)
    ELSE Twiml(Append(say, SayHowElse), "/voice/process_input", "/voice/process_input", FALSE)

\* VoiceHandler.process_user_input from the call of conversation_ai.process_user_input
\* to the return
process_input_turn ==
    \E req \in requests :
      /\ req.pc = "in_turn"
      /\ loop \in {0, req.id}
      /\ req.call_sid \in DOMAIN conversation_sessions
      /\ \E r \in process_user_input(conversation_sessions[req.call_sid], user_sessions,
                                     req.SpeechResult) :
           /\ user_sessions' = r.us
           /\ turn' = TurnRecord(conversation_sessions[req.call_sid], req.SpeechResult, r)
           /\ intents' = IF req.intent = 0 THEN intents
                         ELSE [intents EXCEPT ![req.intent].advances = @ + Advances(r.calls)]
           /\ phone_calls' = [phone_calls EXCEPT
                 ![req.call_sid].next_email = @ + Count("next_email", r.calls),
                 ![req.call_sid].send_email_reply = @ + Count("send_email_reply", r.calls)]
           /\ IF AwaitRaises(r.directive)
                THEN /\ response' = [response EXCEPT ![req.call_sid] =
                                         Twiml(<<SayError>>, None, "/voice/greeting", FALSE)]
                     /\ conversation_sessions' =
                           [conversation_sessions EXCEPT ![req.call_sid] = r.ai]
                ELSE /\ response' = [response EXCEPT ![req.call_sid] = Render(r.directive)]
                     /\ conversation_sessions' =
                           IF r.directive.action = "end_call"
                             THEN Del(conversation_sessions, req.call_sid)
                             ELSE [conversation_sessions EXCEPT ![req.call_sid] = r.ai]
      /\ requests' = requests \ {req}
      /\ loop' = 0
      /\ UNCHANGED <<ai, posted, voice_handler>>

\* ConversationAI.get_current_email_for_reading: the text to read, whatever happens
EmailTexts(us, user_id) ==
    {[us |-> cur.us,
      text |-> IF cur.raised THEN "Error reading email"
               ELSE IF cur.success THEN cur.email ELSE "No more emails to read."]
     : cur \in MCPClient_get_current_email(us, user_id)}

\* the document that presents an email, lines 182-212
RenderEmail(email_text) ==
    IF email_text # ""
      THEN Twiml(<<email_text, SayEmailFallback>>, "/voice/process_input",
                 "/voice/read_email", FALSE)
      ELSE Twiml(<<SayNoMoreEmails, SayHowElse>>, "/voice/process_input",
                 "/voice/process_input", FALSE)

\* VoiceHandler.read_current_email
read_current_email ==
    /\ voice_handler
    /\ loop = 0
    /\ \E req \in requests :
         /\ req.endpoint = "read_email"
         /\ IF req.call_sid \notin DOMAIN conversation_sessions
              THEN /\ response' = [response EXCEPT ![req.call_sid] = LostDocument]
                   /\ UNCHANGED user_sessions
              ELSE \E e \in EmailTexts(user_sessions,
                                       conversation_sessions[req.call_sid].user_id) :
                     /\ user_sessions' = e.us
                     /\ response' = [response EXCEPT ![req.call_sid] =
                           IF AwaitRaises(e.text)
                             THEN Twiml(<<SayTroubleReading>>, None, "/voice/process_input", FALSE)
                             ELSE RenderEmail(e.text)]
         /\ requests' = requests \ {req}
    /\ UNCHANGED <<ai, turn, conversation_sessions, posted, loop, phone_calls, intents,
                   voice_handler>>

\* VoiceHandler.handle_call_status; ConversationAI has no __aexit__, the AttributeError
\* is caught and the session is deleted all the same
handle_call_status ==
    /\ voice_handler
    /\ loop = 0
    /\ \E req \in requests :
         /\ req.endpoint = "status"
         /\ IF req.CallStatus \in TerminalStatuses /\ req.call_sid \in DOMAIN conversation_sessions
              THEN /\ conversation_sessions' = Del(conversation_sessions, req.call_sid)
                   /\ phone_calls' = [phone_calls EXCEPT ![req.call_sid].destroyed = TRUE]
              ELSE UNCHANGED <<conversation_sessions, phone_calls>>
         /\ requests' = requests \ {req}
    /\ UNCHANGED <<ai, user_sessions, turn, posted, loop, response, intents, voice_handler>>

\* app.py, the endpoints when VoiceHandler() failed at start-up: a document that only
\* says the service is unavailable, and "OK" to a status event
service_unavailable ==
    /\ ~voice_handler
    /\ \E req \in requests :
         /\ IF req.endpoint = "status"
              THEN UNCHANGED response
              ELSE response' = [response EXCEPT ![req.call_sid] =
                                    Twiml(<<SayUnavailable>>, None, None, FALSE)]
         /\ requests' = requests \ {req}
    /\ UNCHANGED <<ai, user_sessions, turn, conversation_sessions, posted, loop, phone_calls,
                   intents, voice_handler>>

VoiceNext ==
    \/ StartCall \/ FollowGather \/ FollowRedirect \/ RetryInput
    \/ handle_greeting \/ process_input_begin \/ process_input_turn

VoiceSpec == Init /\ [][VoiceNext]_vars

\* ------------------------------------------------------- the life of a call
\* calls placed either way, that end, with the status events of the provider and
\* requests to the open endpoint /voice/read_email
CallNext ==
    \/ StartAnyCall \/ FollowGather \/ FollowRedirect \/ PostReadEmail \/ CallEnds
    \/ handle_greeting \/ process_input_begin \/ process_input_turn
    \/ read_current_email \/ handle_call_status \/ service_unavailable

CallSpec == CallInit /\ [][CallNext]_vars

\* the handlers of the requests received are run, and a turn entered is finished
CallFairness ==
    /\ WF_vars(handle_greeting) /\ WF_vars(process_input_begin)
    /\ WF_vars(process_input_turn) /\ WF_vars(read_current_email)
    /\ WF_vars(handle_call_status) /\ WF_vars(service_unavailable)

CallLiveSpec == CallInit /\ [][CallNext]_vars /\ CallFairness

\* ------------------------------------------- the service without its voice handler
\* what a REST endpoint of app.py returned, kept for the properties
RestReply(endpoint, phone_number, result) ==
    [NoTurn EXCEPT !.calls = <<[tool |-> endpoint, user_id |-> phone_number, body |-> None,
                                raised |-> FALSE, result |-> result]>>]

\* POST /make-call: the call is placed by VoiceHandler.initiate_call, or an error
\* result is returned when there is no voice handler
make_call_NoCheck == StartCall
make_call ==
    IF voice_handler
      THEN StartCall
      ELSE /\ \E phone_number \in UserIds :
                turn' = RestReply("/make-call", phone_number, "Voice handler not available")
           /\ UNCHANGED <<ai, user_sessions, conversation_sessions, requests, posted, loop,
                          response, phone_calls, intents, voice_handler>>

\* GET /health
health_check ==
    /\ turn' = RestReply("/health", None, "healthy")
    /\ UNCHANGED <<ai, user_sessions, conversation_sessions, requests, posted, loop,
                   response, phone_calls, intents, voice_handler>>

\* the service started and VoiceHandler() raised: voice_handler is None
DegradedInit == InitWith(FALSE, 0)

\* calls reach the service only from caller.make_direct_call; the documents it
\* answers hold neither Gather nor Redirect
DegradedNext ==
    \/ PlaceCall({"make_direct_call"}) \/ PostReadEmail \/ CallEnds
    \/ service_unavailable \/ make_call \/ health_check

DegradedSpec == DegradedInit /\ [][DegradedNext]_vars

\* ------------------------------------------------ the calling script (caller.py)
\* make_direct_call. configured: the provider's credentials are in the environment
\* (their lookup, lines 37-39, is outside the try); created: calls.create returned.
\* In test mode status_callback_url is never assigned, so building the arguments of
\* calls.create raises UnboundLocalError, which the except of line 70 turns into None.
make_direct_call(sid, test_mode, configured, created) ==
    IF ~configured THEN [placed |-> FALSE, result |-> "KeyError"]
    ELSE IF test_mode THEN [placed |-> FALSE, result |-> None]
    ELSE IF ~created THEN [placed |-> FALSE, result |-> None]
    ELSE [placed |-> TRUE, result |-> sid]

\* what the POST to /make-call of the running service did, seen from the script
ServerOutcomes == {"unreachable", "call_sid", "error_result", "error_status", "other_error"}

\* make_interactive_call: one run of the script; sid is the id the provider gives
\* the call if one is created
make_interactive_call ==
    \E sid \in CallSids, phone_number \in UserIds, test_mode \in BOOLEAN,
       server \in ServerOutcomes, configured \in BOOLEAN, created \in BOOLEAN :
       /\ phone_calls[sid].From = None
       /\ sid = "CA1" \/ phone_calls["CA1"].From # None
       /\ server # "unreachable" => configured /\ created
       /\ LET direct == make_direct_call(sid, test_mode, configured, created)
              placed == IF server = "unreachable" THEN direct.placed ELSE server = "call_sid"
              result == IF server = "unreachable" THEN direct.result
                        ELSE IF server = "call_sid" THEN sid
                        ELSE None
          IN /\ phone_calls' =
                   IF placed
                     THEN [phone_calls EXCEPT
                             ![sid].From = phone_number,
                             ![sid].via = IF server = "unreachable"
                                            THEN "make_direct_call" ELSE "initiate_call"]
                     ELSE phone_calls
             /\ turn' = [NoTurn EXCEPT !.calls =
                           <<[tool |-> "make_interactive_call", user_id |-> phone_number,
                              body |-> [test_mode |-> test_mode, server |-> server,
                                        configured |-> configured, created |-> created],
                              raised |-> result = "KeyError", result |-> result]>>]
       /\ UNCHANGED <<ai, user_sessions, conversation_sessions, requests, posted, loop,
                      response, intents, voice_handler>>

CallerSpec == Init /\ [][make_interactive_call]_vars

\* ------------------------------------------- the analysis of an email (main.py)
\* _extract_email_from_sender: group 1 of the first match of <([^>]+)>, else the sender
ExtractEmail(sender) ==
    LET Matches == {m \in (1..Len(sender)) \X (1..Len(sender)) :
                      /\ sender[m[1]] = "<"
                      /\ m[2] > m[1] + 1
                      /\ sender[m[2]] = ">"
                      /\ \A k \in (m[1] + 1)..(m[2] - 1) : sender[k] # ">"}
    IN IF Matches = {} THEN sender
       ELSE LET first == CHOOSE m \in Matches : \A n \in Matches : m[1] <= n[1]
            IN SubSeq(sender, first[1] + 1, first[2] - 1)

UrgentKeywords ==
    <<"urgent", "asap", "important", "deadline", "action required",
      "invoice", "payment", "security", "verify", "expire">>

\* _analyze_email_fallback
_analyze_email_fallback(email_data) ==
    LET sender_email == Lower(ExtractEmail(Chars[email_data.sender]))
        personal == /\ ~Contains(Chars["noreply"], sender_email)
                    /\ ~Contains(Chars["no-reply"], sender_email)
        subject_lower == Lower(Chars[email_data.subject])
        Found(keyword) == Contains(Chars[keyword], subject_lower)
        urgent_found == SelectSeq(UrgentKeywords, Found)
        important == "IMPORTANT" \in email_data.labels
        primary == "CATEGORY_PRIMARY" \in email_data.labels
        importance_score ==
            (IF personal THEN 20 ELSE 0) + (IF urgent_found # <<>> THEN 30 ELSE 0)
            + (IF important THEN 25 ELSE 0) + (IF primary THEN 15 ELSE 0)
    IN [importance_score |-> importance_score,
        importance_level |-> IF importance_score >= 50 THEN "HIGH"
                             ELSE IF importance_score >= 25 THEN "MEDIUM" ELSE "LOW",
        reasoning |-> (IF personal THEN <<"Personal email (not automated)">> ELSE <<>>)
                      \o (IF urgent_found # <<>> THEN <<"Urgent keywords">> ELSE <<>>)
                      \o (IF important THEN <<"Gmail marked as important">> ELSE <<>>)
                      \o (IF primary THEN <<"Primary inbox">> ELSE <<>>),
        urgency_indicators |-> urgent_found,
        action_required |-> importance_score >= 50,
        estimated_response_time |-> IF importance_score >= 50 THEN "WITHIN_DAY"
                                    ELSE "WHEN_CONVENIENT"]

\* the fields of an analysis, and those analyze_email_with_ai asks of a reply
AnalysisFields ==
    {"importance_score", "importance_level", "reasoning", "urgency_indicators",
     "action_required", "estimated_response_time"}
required_fields == {"importance_score", "importance_level", "reasoning"}

\* what generate_content does: it raises, or returns a text without a JSON object,
\* with a text between braces that does not parse, or with a JSON object of some
\* fields (all six, all but one, the three asked for, or none)
Replies ==
    {[kind |-> k, fields |-> {}] : k \in {"raises", "no_json", "bad_json", "json"}}
    \cup {[kind |-> "json", fields |-> AnalysisFields \ {f}] : f \in AnalysisFields}
    \cup {[kind |-> "json", fields |-> f] : f \in {AnalysisFields, required_fields}}

\* analyze_email_with_ai: the analysis returned and where it came from
analyze_email_with_ai(vertex_model, email_data, reply) ==
    IF vertex_model /\ reply.kind = "json" /\ required_fields \subseteq reply.fields
      THEN [by |-> "collaborator", fields |-> reply.fields, analysis |-> None]
      ELSE [by |-> "fallback", fields |-> AnalysisFields,
            analysis |-> _analyze_email_fallback(email_data)]

\* the emails analysed
EmailData ==
    [sender : {"Ann <ann@example.com>", "Shop <NoReply@shop.com>", "no-reply@mail.com"},
     subject : {"lunch", "Invoice due"},
     labels : SUBSET {"IMPORTANT", "CATEGORY_PRIMARY"}]

\* one call of GmailAssistant.analyze_email_with_ai
AnalyzeEmail ==
    /\ \E vertex_model \in BOOLEAN, email_data \in EmailData, reply \in Replies :
         turn' = [NoTurn EXCEPT !.calls =
                    <<[tool |-> "analyze_email_with_ai", user_id |-> None,
                       body |-> [vertex_model |-> vertex_model, email_data |-> email_data,
                                 reply |-> reply],
                       raised |-> FALSE,
                       result |-> analyze_email_with_ai(vertex_model, email_data, reply)]>>]
    /\ UNCHANGED <<ai, user_sessions, conversation_sessions, requests, posted, loop,
                   response, phone_calls, intents, voice_handler>>

AnalysisSpec == Init /\ [][AnalyzeEmail]_vars

\* ------------------------------------- the tool server called directly (call_tool_http)
\* what one request to /call-tool did, kept for the properties: the tool, its user_id
\* argument, what analyze_inbox returned to it (None when not reached) and the result
ToolCallRecord(tool, user_id, fetched, result, success) ==
    [NoTurn EXCEPT !.calls = <<[tool |-> tool, user_id |-> user_id, body |-> fetched,
                                raised |-> FALSE, result |-> result, success |-> success]>>]

\* call_tool_http: one request, routed to the tool's implementation; what the
\* implementation returns is sent back with success=True (line 84)
call_tool_http(tool, user_id, fetched, answer) ==
    /\ user_sessions' = answer.us
    /\ turn' = ToolCallRecord(tool, user_id, fetched, answer.result, TRUE)
    /\ UNCHANGED <<ai, conversation_sessions, requests, posted, loop, response,
                   phone_calls, intents, voice_handler>>

InitializeCredsCall ==
    \E user_id \in UserIds, ctor_ok \in BOOLEAN :
       call_tool_http("initialize_creds", user_id, None,
                      initialize_creds_impl(user_sessions, user_id, ctor_ok))

GetEmailsCall ==
    \E user_id \in UserIds :
       \/ \E e \in Inboxes :
            call_tool_http("get_emails", user_id,
                           IF get_user_session(user_sessions, user_id)[user_id].gmail_assistant
                             THEN e ELSE None,
                           get_emails_impl(user_sessions, user_id, [raised |-> FALSE, emails |-> e]))
       \/ call_tool_http("get_emails", user_id, None,
                         get_emails_impl(user_sessions, user_id, [raised |-> TRUE, emails |-> <<>>]))

GetCurrentEmailForReadingCall ==
    \E user_id \in UserIds :
       call_tool_http("get_current_email_for_reading", user_id, None,
                      get_current_email_for_reading_impl(user_sessions, user_id))

ReadFullCurrentEmailCall ==
    \E user_id \in UserIds :
       call_tool_http("read_full_current_email", user_id, None,
                      read_full_current_email_impl(user_sessions, user_id))

NextEmailCall ==
    \E user_id \in UserIds :
       /\ get_user_session(user_sessions, user_id)[user_id].current_email_index < MaxCursor
       /\ call_tool_http("next_email", user_id, None, next_email_impl(user_sessions, user_id))

SendEmailReplyCall ==
    \E user_id \in UserIds :
       call_tool_http("send_email_reply", user_id, None,
                      send_email_reply_impl(user_sessions, user_id))

\* a request naming no tool of the server: the HTTPException of line 82 is caught at
\* line 86 and answered with success=False
UnknownToolCall ==
    /\ \E user_id \in UserIds :
         turn' = ToolCallRecord("no_such_tool", user_id, None, MsgUnknownTool, FALSE)
    /\ UNCHANGED <<ai, user_sessions, conversation_sessions, requests, posted, loop, response,
                   phone_calls, intents, voice_handler>>

ToolNext ==
    \/ InitializeCredsCall \/ GetEmailsCall \/ GetCurrentEmailForReadingCall
    \/ ReadFullCurrentEmailCall \/ NextEmailCall \/ SendEmailReplyCall
    \/ UnknownToolCall

ToolSpec == Init /\ [][ToolNext]_vars

\* ------------------------------------------------------------------ properties
MailboxTools ==
    {"initialize_creds", "get_emails", "get_current_email", "next_email",
     "send_email_reply", "get_calendar_events"}
MailboxCalls(calls) == {i \in DOMAIN calls : calls[i].tool \in MailboxTools}
SomeCallRaised(calls) == \E i \in DOMAIN calls : calls[i].raised
TurnDone == turn.mode_before # None

\* C1: process_user_input returns a directive and never raises, whatever the mode,
\* the utterance and the outcome of the collaborator calls, and the directive's
\* action is one of the six values of the action enum.
C1_AlwaysDirective ==
    TurnDone => /\ ~turn.raised
                /\ turn.directive.action \in ActionEnum

\* a turn in which a collaborator call raised and the exception reached the top
C1_Witness == TurnDone /\ turn.caught /\ SomeCallRaised(turn.calls)

\* C2: every directive returned by process_user_input has a non-empty tts_text.
C2_TtsNonEmpty == TurnDone => turn.directive.tts_text \notin {"", None}

\* C3: from mode greeting, a turn whose utterance contains "email" ends in mode
\* email_reading and issues exactly one get_emails call, whatever the generative
\* call did.
C3_EmailIntentStartsReading ==
    (turn.mode_before = "greeting" /\ AnyKeyword({"email"}, turn.utterance))
        => /\ ai.mode = "email_reading"
           /\ Count("get_emails", turn.calls) = 1

GenerateReturned(calls) ==
    \E i \in DOMAIN calls : calls[i].tool = "generate" /\ ~calls[i].raised
SendReturned(calls) ==
    \E i \in DOMAIN calls : calls[i].tool = "send_email_reply" /\ ~calls[i].raised

C7_ExhaustedGoesGeneral ==
    (/\ turn.mode_before = "email_reading"
     /\ \E i \in DOMAIN turn.calls : /\ turn.calls[i].tool = "next_email"
                                     /\ turn.calls[i].result = MsgNoMoreToRead)
        => ai.mode = "general"

\* next_email moved the cursor past the last email of a loaded listing
C7_Witness ==
    /\ turn.mode_before = "email_reading"
    /\ turn.utterance = "next"
    /\ \E i \in DOMAIN turn.calls : /\ turn.calls[i].tool = "next_email"
                                    /\ turn.calls[i].result = MsgNoMoreToRead
    /\ LET s == user_sessions[ai.user_id] IN
         s.gmail_emails # <<>> /\ s.current_email_index >= Len(s.gmail_emails)

\* C5: one caller intent advances the cursor at most once, also when the transport
\* delivers the utterance twice and the two turns overlap: the turns do not both
\* call next_email with effect.
C5_OneAdvancePerIntent == \A k \in DOMAIN intents : intents[k].advances <= 1

\* C6: turns of one call never interleave: while a turn of a call is in progress no
\* other turn of that call is in progress, and the mode and context the turn read
\* are still those of the session (nothing wrote them in between).
C6_NoInterleavedTurns ==
    \A req \in requests :
       req.pc = "in_turn"
          => /\ \A other \in requests :
                  (other.call_sid = req.call_sid /\ other.pc = "in_turn") => other = req
             /\ req.call_sid \in DOMAIN conversation_sessions
             /\ conversation_sessions[req.call_sid].mode = req.seen.mode
             /\ conversation_sessions[req.call_sid].context = req.seen.context

\* a second delivery for the same call waits while a turn of that call is in progress
C6_Witness ==
    \E req \in requests, other \in requests :
       /\ req.pc = "in_turn"
       /\ other # req
       /\ other.call_sid = req.call_sid
       /\ other.endpoint = "process_input"
       /\ other.pc = "await_form"

\* C8: in mode general an utterance with a farewell keyword and no email, calendar
\* or task keyword yields end_call with the farewell text, calls no mailbox tool and
\* leaves the mode general.
C8_FarewellEndsCall ==
    (/\ turn.mode_before = "general"
     /\ AnyKeyword({"goodbye", "bye", "done", "thank you", "thanks"}, turn.utterance)
     /\ ~AnyKeyword({"email", "emails", "read email", "check email", "calendar", "schedule",
                     "appointments", "task", "tasks", "todo"}, turn.utterance))
        => /\ turn.directive = [action |-> "end_call", tts_text |-> MsgFarewell]
           /\ MailboxCalls(turn.calls) = {}
           /\ ai.mode = "general"

C8_Witness ==
    /\ turn.mode_before = "general"
    /\ turn.utterance = "thank you, goodbye"
    /\ turn.directive.action = "end_call"

NoGeneralKeyword(user_speech) ==
    ~AnyKeyword({"email", "emails", "read email", "check email", "calendar", "schedule",
                 "appointments", "task", "tasks", "todo", "goodbye", "bye", "done",
                 "thank you", "thanks"}, user_speech)

\* C9: in mode general with an utterance matching no keyword group, when the
\* generative call raises the directive is the fixed canned line with action
\* continue, and the mode stays general.
C9_FallbackLine ==
    (/\ turn.mode_before = "general"
     /\ NoGeneralKeyword(turn.utterance)
     /\ SomeCallRaised(turn.calls))
        => /\ turn.directive = [action |-> "continue", tts_text |-> MsgCanHelp]
           /\ ai.mode = "general"

C9_Witness ==
    /\ turn.mode_before = "general"
    /\ turn.utterance = "hello"
    /\ SomeCallRaised(turn.calls)
    /\ turn.directive.tts_text = MsgCanHelp

\* C10: when a collaborator call raises during a turn that starts in mode greeting,
\* email_reading or general, the turn returns a continue directive with one of the
\* canned apology lines and the mode after the turn is the mode before it.
C10_ModeKeptOnFailure ==
    (/\ turn.mode_before \in {"greeting", "email_reading", "general"}
     /\ SomeCallRaised(turn.calls))
        => /\ turn.directive.action = "continue"
           /\ turn.directive.tts_text \in {MsgErrorApology, MsgHello, MsgCanHelp}
           /\ ai.mode = turn.mode_before

\* the step made no get_emails call: the listing generation of every user goes on
SameGeneration(calls) == \A i \in DOMAIN calls : calls[i].tool # "get_emails"
LastToolCall == turn.calls[1]
ToolCalled(tool) == turn.mode_before = None /\ Len(turn.calls) = 1 /\ LastToolCall.tool = tool

\* C19: within one listing generation (no get_emails call in between) the cursor
\* current_email_index of a user never decreases, whatever get_current_email_for_reading,
\* read_full_current_email, next_email, send_email_reply and initialize_creds calls
\* are made.
C19_CursorMonotone ==
    [][SameGeneration(turn'.calls) =>
         \A u \in DOMAIN user_sessions :
            user_sessions'[u].current_email_index >= user_sessions[u].current_email_index]_vars

\* the cursor was advanced and another tool than get_emails and next_email was called
C19_Witness ==
    /\ ToolCalled("initialize_creds") \/ ToolCalled("read_full_current_email")
         \/ ToolCalled("send_email_reply")
    /\ user_sessions[LastToolCall.user_id].current_email_index >= 2

\* C20: every get_emails call for a user with initialized credentials whose fetch
\* returned starts a new listing generation: afterwards the cursor is 0 and the stored
\* listing is the one just fetched, also when the fetched inbox is empty.
C20_GetEmailsStartsGeneration ==
    (ToolCalled("get_emails") /\ LastToolCall.body # None) =>
        /\ user_sessions[LastToolCall.user_id].current_email_index = 0
        /\ user_sessions[LastToolCall.user_id].gmail_emails = LastToolCall.body

\* the request is answered in this step
Answered(req) == req \in requests /\ req \notin requests'
FreshSession(user_id) ==
    [user_id |-> user_id, mode |-> "greeting", context |-> [responding_to |-> None],
     conversation_history |-> <<>>]
Restart(document) ==
    /\ document.say = <<SayLost>>
    /\ document.gather = None
    /\ document.redirect = "/voice/greeting"
    /\ ~document.hangup

\* C11: after the session of a call id was destroyed, a turn request or a read-email
\* request for that call id is a session miss: the answer is the restart message with
\* a redirect to the greeting, no turn is made and no session appears; a greeting
\* request for it creates a session in mode greeting with empty context and history.
C11_MissAfterDestroy ==
    [][\A req \in requests :
         (/\ Answered(req)
          /\ phone_calls[req.call_sid].destroyed
          /\ req.call_sid \notin DOMAIN conversation_sessions)
         => /\ req.endpoint \in {"process_input", "read_email"}
                 => /\ Restart(response'[req.call_sid])
                    /\ conversation_sessions' = conversation_sessions
                    /\ user_sessions' = user_sessions
                    /\ turn' = turn
            /\ req.endpoint = "greeting"
                 => /\ req.call_sid \in DOMAIN conversation_sessions'
                    /\ conversation_sessions'[req.call_sid] = FreshSession(req.From)]_vars

\* a request for a call whose session was destroyed got the restart document
C11_Witness ==
    \E c \in CallSids :
       /\ phone_calls[c].destroyed
       /\ c \notin DOMAIN conversation_sessions
       /\ Restart(response[c])

\* C12: a greeting request for a call id that has a session keeps that session: the
\* registry, with the mode, context and history of every session, is unchanged.
C12_GreetingKeepsSession ==
    [][\A req \in requests :
         (/\ Answered(req)
          /\ req.endpoint = "greeting"
          /\ req.call_sid \in DOMAIN conversation_sessions)
         => conversation_sessions' = conversation_sessions]_vars

\* the greeting was answered for a call whose session a turn had changed
C12_Witness ==
    \E c \in CallSids :
       /\ c \in DOMAIN conversation_sessions
       /\ conversation_sessions[c].conversation_history # <<>>
       /\ response[c].say = <<SayWelcome, SayNoInput>>

\* C13: a status event with status completed, failed, busy or no-answer removes the
\* session of its call id and no other; a status event with another status, or for
\* a call id without session, leaves the registry unchanged.
C13_StatusEvent ==
    [][\A req \in requests :
         (Answered(req) /\ req.endpoint = "status")
         => IF /\ req.CallStatus \in {"completed", "failed", "busy", "no-answer"}
               /\ req.call_sid \in DOMAIN conversation_sessions
              THEN /\ DOMAIN conversation_sessions' =
                         DOMAIN conversation_sessions \ {req.call_sid}
                   /\ \A c \in DOMAIN conversation_sessions' :
                         conversation_sessions'[c] = conversation_sessions[c]
              ELSE conversation_sessions' = conversation_sessions]_vars

\* a terminal status event removed the session of a call while another call has one
C13_Witness ==
    \E c \in CallSids :
       /\ phone_calls[c].destroyed
       /\ c \notin DOMAIN conversation_sessions
       /\ DOMAIN conversation_sessions # {}

\* C14: for a call placed through VoiceHandler.initiate_call whose greeting created
\* a session, once the call has terminated the session is eventually removed.
C14_SessionEventuallyRemoved ==
    \A c \in CallSids :
       (/\ phone_calls[c].via = "initiate_call"
        /\ phone_calls[c].ended
        /\ c \in DOMAIN conversation_sessions)
       ~> (c \notin DOMAIN conversation_sessions)

\* the request is a turn that ends in this step
TurnAnswered(req) == Answered(req) /\ req.pc = "in_turn"

\* C15: when the directive of a turn has action end_call the document says tts_text
\* and hangs up and the session of the call is gone when the request returns; for
\* every other action the session stays in the registry.
C15_EndCallDestroys ==
    [][\A req \in requests :
         TurnAnswered(req)
         => IF turn'.directive.action = "end_call"
              THEN /\ response'[req.call_sid].say = <<turn'.directive.tts_text>>
                   /\ response'[req.call_sid].hangup
                   /\ req.call_sid \notin DOMAIN conversation_sessions'
              ELSE req.call_sid \in DOMAIN conversation_sessions']_vars

\* C16: after a directive start_email_reading, read_next_email or continue_reading
\* the document leads to /voice/read_email without gathering an utterance; after
\* wait_for_response_content or continue it gathers the next utterance for
\* /voice/process_input and does not lead to /voice/read_email.
C16_RoutesByAction ==
    [][\A req \in requests :
         TurnAnswered(req)
         => /\ turn'.directive.action \in
                   {"start_email_reading", "read_next_email", "continue_reading"}
                 => /\ response'[req.call_sid].redirect = "/voice/read_email"
                    /\ response'[req.call_sid].gather = None
            /\ turn'.directive.action \in {"wait_for_response_content", "continue"}
                 => /\ response'[req.call_sid].gather = "/voice/process_input"
                    /\ response'[req.call_sid].redirect # "/voice/read_email"]_vars

\* C17: every document returned for a voice request that does not hang up keeps the
\* call going: it gathers the next utterance or redirects to a voice endpoint.
C17_CallGoesOn ==
    \A c \in CallSids :
       (response[c] # NoResponse /\ ~response[c].hangup)
          => (response[c].gather # None \/ response[c].redirect # None)

\* what the caller of a call said so far, in a mode of the session
Spoken(c, mode) ==
    {k \in DOMAIN intents : intents[k].call_sid = c /\ intents[k].mode = mode}

\* C18: in every call the number of send_email_reply calls is at most the number of
\* non-empty utterances the caller spoke in mode responding, and the number of
\* next_email calls at most the number of next/skip utterances spoken in mode
\* email_reading.
C18_OneCallPerIntent ==
    \A c \in CallSids :
       /\ phone_calls[c].send_email_reply
             <= Cardinality({k \in Spoken(c, "responding") : intents[k].speech # ""})
       /\ phone_calls[c].next_email
             <= Cardinality({k \in Spoken(c, "email_reading") :
                                AnyKeyword(NextKeywords, intents[k].speech)})

\* what the tool server answers when a tool did not do what was asked
ToolFailures ==
    {MsgUnknownTool, MsgCredsError, MsgInitFirst, MsgGetEmailsError, MsgNoEmailsLoaded}

\* C21: every tool failure is answered by call_tool_http with success = false (an
\* unknown tool, an exception inside a tool, get_emails or send_email_reply before
\* initialize_creds, next_email without listing), and success = true only when the
\* tool did what was asked.
C21_FailureNotSuccess ==
    (turn.mode_before = None /\ Len(turn.calls) = 1)
        => (LastToolCall.success <=> LastToolCall.result \notin ToolFailures)

\* the listing and cursor a call of user u reads
Mailbox(us, u) ==
    IF u \in DOMAIN us
      THEN [gmail_emails |-> us[u].gmail_emails,
            current_email_index |-> us[u].current_email_index]
      ELSE [gmail_emails |-> <<>>, current_email_index |-> 0]

\* C22: a turn of a call changes neither the mode, context or history of another
\* live call nor the mailbox listing or cursor the other call reads, also when both
\* calls come from the same number.
C22_CallsIndependent ==
    [][\A req \in requests :
         TurnAnswered(req)
         => \A b \in DOMAIN conversation_sessions \ {req.call_sid} :
               Live(b)
               => /\ b \in DOMAIN conversation_sessions'
                  /\ conversation_sessions'[b] = conversation_sessions[b]
                  /\ Mailbox(user_sessions', conversation_sessions[b].user_id)
                        = Mailbox(user_sessions, conversation_sessions[b].user_id)]_vars

\* C23: an utterance of 'goodbye', 'bye' or 'done' ends the call in whatever mode it
\* is spoken: the action of the turn is end_call.
C23_FarewellAnyMode ==
    (TurnDone /\ AnyKeyword({"goodbye", "bye", "done"}, turn.utterance))
        => turn.directive.action = "end_call"

\* C24: in mode email_reading next/skip is checked before respond/reply: an utterance
\* with a keyword of both is handled as advance (one next_email call, the mode does
\* not become responding); an utterance matching no keyword makes no mailbox call.
C24_NextBeforeReply ==
    turn.mode_before = "email_reading"
        => /\ (/\ AnyKeyword({"next", "skip"}, turn.utterance)
               /\ AnyKeyword(ReplyKeywords, turn.utterance))
                 => /\ Count("next_email", turn.calls) = 1
                    /\ ai.mode # "responding"
           /\ ~AnyKeyword(ReplyKeywords \cup NextKeywords \cup StopKeywords, turn.utterance)
                 => MailboxCalls(turn.calls) = {}

\* C25: in mode email_reading an utterance with a read/confirm keyword ('yes, read
\* it') calls read_full_current_email exactly once and the mode stays email_reading.
C25_ReadFullOnConfirm ==
    (/\ turn.mode_before = "email_reading"
     /\ AnyKeyword({"yes", "read"}, turn.utterance)
     /\ ~AnyKeyword(ReplyKeywords \cup NextKeywords \cup StopKeywords, turn.utterance))
        => /\ Count("read_full_current_email", turn.calls) = 1
           /\ ai.mode = "email_reading"

\* C26: in mode email_reading a respond/reply utterance ends the turn in mode
\* responding with responding_to stored in context and action
\* wait_for_response_content; whenever a turn ends in mode responding, context holds
\* responding_to.
C26_RespondingHasMarker ==
    TurnDone
        => /\ (/\ turn.mode_before = "email_reading"
               /\ AnyKeyword(ReplyKeywords, turn.utterance))
                 => /\ ai.mode = "responding"
                    /\ ai.context.responding_to # None
                    /\ turn.directive.action = "wait_for_response_content"
           /\ ai.mode = "responding" => ai.context.responding_to # None

\* C27: after a turn processed in mode responding the context no longer holds
\* responding_to.
C27_MarkerCleared ==
    turn.mode_before = "responding" => ai.context.responding_to = None

\* C28: when get_emails returns an error result (no exception) in a greeting-mode
\* turn with an email keyword, the directive is a canned apology with action
\* continue and the mode stays greeting.
C28_ErrorResultIsFailure ==
    (/\ turn.mode_before = "greeting"
     /\ AnyKeyword(EmailKeywords, turn.utterance)
     /\ \E i \in DOMAIN turn.calls :
           /\ turn.calls[i].tool = "get_emails"
           /\ ~turn.calls[i].raised
           /\ turn.calls[i].result \in {MsgInitFirst, MsgGetEmailsError, MsgToolError})
        => /\ turn.directive.action = "continue"
           /\ turn.directive.tts_text \in {MsgErrorApology, MsgHello, MsgCanHelp}
           /\ ai.mode = "greeting"

\* C29: after a turn in mode responding the mode is email_reading, never responding,
\* and at most one send_email_reply was attempted; when the generative call or
\* send_email_reply raised, the action is continue_reading.
C29_RespondingFailureRecovers ==
    turn.mode_before = "responding"
        => /\ ai.mode = "email_reading"
           /\ Count("send_email_reply", turn.calls) <= 1
           /\ SomeCallRaised(turn.calls)
                 => /\ turn.directive.action = "continue_reading"
                    /\ ~turn.raised /\ ~turn.caught

\* send_email_reply raised in a responding turn
C29_Witness ==
    /\ turn.mode_before = "responding"
    /\ ai.mode = "email_reading"
    /\ \E i \in DOMAIN turn.calls :
          turn.calls[i].tool = "send_email_reply" /\ turn.calls[i].raised

\* C30: in mode general an utterance with an email keyword runs the greeting handler
\* in the same turn, also when it holds a farewell keyword: no end_call, and when no
\* call raises, one initialize_creds then one get_emails, mode email_reading and
\* action start_email_reading; a calendar or task utterance without email keyword
\* leaves the mode general and returns action continue.
C30_GeneralKeywordOrder ==
    turn.mode_before = "general"
        => /\ AnyKeyword(EmailKeywords, turn.utterance)
                 => /\ turn.directive.action # "end_call"
                    /\ ~SomeCallRaised(turn.calls)
                          => /\ Count("initialize_creds", turn.calls) = 1
                             /\ Count("get_emails", turn.calls) = 1
                             /\ \E i, j \in DOMAIN turn.calls :
                                   /\ i < j
                                   /\ turn.calls[i].tool = "initialize_creds"
                                   /\ turn.calls[j].tool = "get_emails"
                             /\ ai.mode = "email_reading"
                             /\ turn.directive.action = "start_email_reading"
           /\ (/\ ~AnyKeyword(EmailKeywords, turn.utterance)
               /\ AnyKeyword(CalendarKeywords \cup TaskKeywords, turn.utterance))
                 => /\ ai.mode = "general"
                    /\ turn.directive.action = "continue"

\* an utterance with an email and a farewell keyword started the reading
C30_Witness ==
    /\ turn.mode_before = "general"
    /\ turn.utterance = "email then bye"
    /\ ai.mode = "email_reading"
    /\ turn.directive.action = "start_email_reading"

\* C31: in mode greeting a turn whose utterance holds no email keyword leaves the
\* mode greeting, returns action continue and calls no mailbox tool.
C31_GreetingOtherStays ==
    (turn.mode_before = "greeting" /\ ~AnyKeyword({"email"}, turn.utterance))
        => /\ ai.mode = "greeting"
           /\ turn.directive.action = "continue"
           /\ MailboxCalls(turn.calls) = {}

\* a greeting turn without email keyword, answered by the generative call
C31_Witness ==
    /\ turn.mode_before = "greeting"
    /\ turn.utterance = "yes, read it"
    /\ Count("generate", turn.calls) = 1
    /\ ai.mode = "greeting"

\* C32: the conversation history is append-only: every call of process_user_input,
\* also one that ends in the error directive, appends its utterance at the end of
\* the history and leaves the earlier entries as they were.
C32_HistoryAppendOnly ==
    [][/\ ai'.conversation_history = Append(ai.conversation_history, turn'.utterance)
       /\ Len(ai'.conversation_history) = Len(ai.conversation_history) + 1]_vars

\* a second turn that ended in the error directive, its utterance in the history
C32_Witness ==
    /\ TurnDone
    /\ turn.caught
    /\ Len(ai.conversation_history) >= 2
    /\ ai.conversation_history[Len(ai.conversation_history)] = turn.utterance

\* C39: whenever a turn ends with the session in mode general, the action of the
\* directive is continue or end_call and never start_email_reading, read_next_email
\* or continue_reading.
C39_GeneralNeverSurfacesEmail ==
    (TurnDone /\ ai.mode = "general")
        => turn.directive.action \in {"continue", "end_call"}

ReadOnlyTools == {"get_current_email_for_reading", "read_full_current_email"}

\* C36: get_current_email_for_reading and read_full_current_email are read-only: a
\* call of either leaves the listing and the cursor of every user as they were, a
\* call that repeats the previous one returns the same text, and the cursor of a
\* user changes only in a call of next_email or get_emails.
C36_ReadToolsReadOnly ==
    [][/\ turn'.calls[1].tool \in ReadOnlyTools
            => /\ \A u \in UserIds : Mailbox(user_sessions', u) = Mailbox(user_sessions, u)
               /\ (/\ Len(turn.calls) = 1
                   /\ LastToolCall.tool = turn'.calls[1].tool
                   /\ LastToolCall.user_id = turn'.calls[1].user_id)
                     => turn'.calls[1].result = LastToolCall.result
       /\ (\E u \in UserIds :
              Mailbox(user_sessions', u).current_email_index
                 # Mailbox(user_sessions, u).current_email_index)
            => turn'.calls[1].tool \in {"next_email", "get_emails"}]_vars

\* the full text of the second email of a listing was read
C36_Witness ==
    /\ ToolCalled("read_full_current_email")
    /\ LastToolCall.result = MsgFullContent
    /\ user_sessions[LastToolCall.user_id].current_email_index = 1

\* C40: for every user with a loaded listing the cursor stays within bounds after
\* any sequence of tool calls: 0 <= current_email_index <= len(gmail_emails).
C40_CursorInBounds ==
    \A u \in DOMAIN user_sessions :
       user_sessions[u].gmail_emails # <<>>
          => /\ 0 <= user_sessions[u].current_email_index
             /\ user_sessions[u].current_email_index <= Len(user_sessions[u].gmail_emails)

\* C34: a terminal status event of a call may be handled while a turn request of the
\* same call is in flight: the status handler removes the session and leaves the
\* other requests in flight, the turn request completes with a document and without
\* an exception (the restart document when its session is gone), no turn request
\* creates a session, and a session leaves the registry only in the handling of a
\* terminal status event of its call.
C34_StatusDuringTurn ==
    [][/\ \A req \in requests :
            (voice_handler /\ Answered(req))
            => /\ (req.endpoint = "status" /\ req.CallStatus \in TerminalStatuses)
                    => /\ req.call_sid \notin DOMAIN conversation_sessions'
                       /\ requests' = requests \ {req}
               /\ req.endpoint = "process_input"
                    => /\ DOMAIN conversation_sessions' \subseteq DOMAIN conversation_sessions
                       /\ req.call_sid \notin DOMAIN conversation_sessions
                             => /\ Restart(response'[req.call_sid])
                                /\ turn' = turn
                       /\ req.pc = "in_turn"
                             => /\ ~turn'.raised
                                /\ response'[req.call_sid].say # <<>>
       /\ \A c \in DOMAIN conversation_sessions \ DOMAIN conversation_sessions' :
             \E req \in requests :
                /\ Answered(req)
                /\ req.call_sid = c
                /\ req.endpoint = "status"
                /\ req.CallStatus \in TerminalStatuses]_vars

\* the session of a call was removed by a status event while a turn request of the
\* call is in flight
C34_Witness ==
    \E req \in requests :
       /\ voice_handler
       /\ req.endpoint = "process_input"
       /\ phone_calls[req.call_sid].destroyed
       /\ req.call_sid \notin DOMAIN conversation_sessions

RestCalled(endpoint) ==
    turn.mode_before = None /\ Len(turn.calls) = 1 /\ turn.calls[1].tool = endpoint

\* C35: when VoiceHandler() failed at start-up the service goes on: /health reports
\* healthy, the greeting, process_input and read_email endpoints answer the
\* unavailable document and touch no session, the status endpoint answers without
\* touching anything, and /make-call returns an error result and places no call.
C35_DegradedService ==
    [][/\ ~voice_handler'
       /\ \A req \in requests :
            Answered(req)
            => /\ conversation_sessions' = conversation_sessions
               /\ user_sessions' = user_sessions
               /\ IF req.endpoint = "status"
                    THEN response' = response
                    ELSE response'[req.call_sid] = Twiml(<<SayUnavailable>>, None, None, FALSE)
       /\ \A c \in CallSids : phone_calls'[c].via # "initiate_call"
       /\ (turn' # turn /\ turn'.calls[1].tool = "/make-call")
            => /\ turn'.calls[1].result = "Voice handler not available"
               /\ phone_calls' = phone_calls
               /\ requests' = requests
       /\ (turn' # turn /\ turn'.calls[1].tool = "/health")
            => turn'.calls[1].result = "healthy"]_vars

\* /make-call returned its error after a voice endpoint and the status endpoint
\* answered a call placed by caller.make_direct_call
C35_Witness ==
    /\ ~voice_handler
    /\ RestCalled("/make-call")
    /\ \E c \in CallSids :
          /\ response[c].say = <<SayUnavailable>>
          /\ Outstanding(c) = {}

\* C37: when the running service is unreachable, make_interactive_call falls back to
\* a direct call against the telephony provider and returns the SID of that call,
\* for both values of the test-mode flag (the provider's credentials set, the
\* provider accepting the call).
C37_FallbackReturnsSid ==
    (/\ RestCalled("make_interactive_call")
     /\ turn.calls[1].body.server = "unreachable"
     /\ turn.calls[1].body.configured
     /\ turn.calls[1].body.created)
        => /\ turn.calls[1].result \in CallSids
           /\ phone_calls[turn.calls[1].result].via = "make_direct_call"
           /\ phone_calls[turn.calls[1].result].From = turn.calls[1].user_id

\* C38: analyze_email_with_ai returns the collaborator's analysis only when the
\* reply parses as a JSON object with all six fields; when parsing fails, the
\* collaborator raises or a field is missing, the result is the rule-based fallback
\* analysis of the email.
C38_AllFieldsOrFallback ==
    RestCalled("analyze_email_with_ai")
        => LET call == turn.calls[1] IN
           IF /\ call.body.vertex_model
              /\ call.body.reply.kind = "json"
              /\ call.body.reply.fields = AnalysisFields
             THEN call.result.by = "collaborator"
             ELSE /\ call.result.by = "fallback"
                  /\ call.result.analysis = _analyze_email_fallback(call.body.email_data)

====
